---- MODULE Spec2Model ----
(***************************************************************************)
(* A model of sqla_yaml_fixtures: the Store, the relation finder           *)
(* (_get_rel_col_for), the object builder (_create_obj) and the loader     *)
(* (load).                                                                 *)
(*                                                                         *)
(* Python values are tagged tuples:                                        *)
(*   <<"none">>            None                                            *)
(*   <<"str", s>>          a str; s is the sequence of its characters      *)
(*   <<"int", n>>          a number                                        *)
(*   <<"dict", items>>     a dict; items is the sequence of <<name,value>> *)
(*                         pairs in insertion order                        *)
(*   <<"list", elems>>     a list of str; elems is a sequence of strings   *)
(*   <<"obj", id>>         a reference to object number id of the heap     *)
(*   <<"objlist", ids>>    a list of references to heap objects            *)
(* A string is a sequence of characters.  The alphabet is made of the      *)
(* separator "." and of identifiers, each identifier standing for one      *)
(* character, so that key.split('.') is computed and never assumed.        *)
(* Dict keys and attribute names that the schema declares are identifiers. *)
(*                                                                         *)
(* load iterates over the node tree once, front to back, and never looks   *)
(* ahead: the tree is given to the model as it is iterated over, one Entry *)
(* and one Instance at a time, and `data` holds the part already reached.  *)
(* The ORM is modelled as far as the loader depends on it: a constructor   *)
(* that keeps its keyword arguments as attributes and rejects unknown      *)
(* ones, attribute reads, and setattr.  A mapped attribute never set reads *)
(* as None; the other side of a relationship is not back-populated.        *)
(***************************************************************************)
EXTENDS Integers, Sequences, FiniteSets, TLC

VARIABLES
    pc,       \* position of load: "start", "loop", "instances", "build", "done", "error"
    data,     \* the part of the node tree load has iterated over so far
    store,    \* Store._store: key (a string) -> object id
    objs,     \* the heap: every model object instantiated so far
    stack,    \* the active _create_obj calls, the innermost one last
    added,    \* the objects passed to session.add, in call order
    commits,  \* the number of session.commit calls
    err       \* the exception that ended the load, or NoErr

vars == <<pc, data, store, objs, stack, added, commits, err>>

-----------------------------------------------------------------------------
(* Bounds *)

\* the number of root-level Instances one load builds
MaxInstances == 3
\* the number of Entries one load iterates over
MaxEntries == 2
\* the number of distinct objects a client of the Store puts into it
MaxStoreValues == 2

-----------------------------------------------------------------------------
(* Python values *)

None == <<"none">>
Str(s) == <<"str", s>>
Dict(items) == <<"dict", items>>
List(elems) == <<"list", elems>>
Obj(id) == <<"obj", id>>
\* a list of model objects (what setattr attaches to a relationship)
ObjList(ids) == <<"objlist", ids>>

IsDict(v) == v[1] = "dict"
IsStr(v) == v[1] = "str"
IsList(v) == v[1] = "list"
IsObj(v) == v[1] = "obj"

NoErr == [type |-> "none", cause |-> "none", arg |-> <<>>]
Raise(type, cause, arg) == [type |-> type, cause |-> cause, arg |-> arg]

HasKey(items, name) == \E i \in 1..Len(items) : items[i][1] = name

\* d[name], for a name the dict holds
DictGet(items, name) ==
    items[CHOOSE i \in 1..Len(items) : items[i][1] = name][2]

\* d[name] = value: replaces the value in place, or appends a new item
DictSet(items, name, value) ==
    IF HasKey(items, name)
    THEN [i \in 1..Len(items) |->
            IF items[i][1] = name THEN <<name, value>> ELSE items[i]]
    ELSE Append(items, <<name, value>>)

\* the dict without the item called name
RECURSIVE DictDel(_, _)
DictDel(items, name) ==
    IF items = <<>> THEN <<>>
    ELSE IF items[1][1] = name THEN DictDel(Tail(items), name)
         ELSE <<items[1]>> \o DictDel(Tail(items), name)

\* a pop that loses the value it removes
DictPopNoValue(items, name) ==
    [value |-> None, rest |-> DictDel(items, name)]

\* d.pop(name, None): the value removed (None when absent) and the rest
DictPop(items, name) ==
    [value |-> IF HasKey(items, name) THEN DictGet(items, name) ELSE None,
     rest  |-> DictDel(items, name)]

\* bool(v) as `if key:` evaluates it
Truthy(v) ==
    CASE v[1] = "none" -> FALSE
      [] v[1] = "str"  -> v[2] # <<>>
      [] v[1] = "int"  -> v[2] # 0
      [] v[1] = "dict" -> v[2] # <<>>
      [] v[1] = "list" -> v[2] # <<>>
      [] v[1] = "objlist" -> v[2] # <<>>
      [] OTHER         -> TRUE

-----------------------------------------------------------------------------
(* The schema the loader is given (ModelBase._decl_class_registry) *)

Models == {"Tag", "Post", "PostTag", "Comment"}

\* the column attributes of a mapped class
Columns(model) ==
    CASE model = "Tag"     -> {"name"}
      [] model = "Post"    -> {"title"}
      [] model = "Comment" -> {"text"}
      [] OTHER             -> {}

\* the relationship attributes of a mapped class, in class-manager order:
\* <<attribute, related class, back_populates>>; "" is back_populates = None
Relationships(model) ==
    CASE model = "Post" ->
            << <<"tags", "PostTag", "post">>,
               <<"comments", "Comment", "post">> >>
      [] model = "PostTag" ->
            << <<"post", "Post", "tags">>,
               <<"tag", "Tag", "">> >>
      [] model = "Comment" ->
            << <<"post", "Post", "comments">>,
               <<"replies", "Comment", "parent">>,
               <<"parent", "Comment", "replies">> >>
      [] OTHER -> <<>>

\* __init__ parameters of a mapped class that are not mapped attributes
InitParams(model) ==
    CASE model = "Post" -> {"owner"}
      [] OTHER          -> {}

IsRelationship(model, name) ==
    \E i \in 1..Len(Relationships(model)) : Relationships(model)[i][1] = name

RelOf(model, name) ==
    Relationships(model)[
        CHOOSE i \in 1..Len(Relationships(model)) :
            Relationships(model)[i][1] = name]

\* getattr(getattr(model, name), 'property'): "column", "relationship", or
\* "AttributeError" for a name the class does not map; "TypeError" for a
\* name that is not a string (the None a missing back_populates yields)
ColumnKind(model, name) ==
    IF name = "" THEN "TypeError"
    ELSE IF name \in Columns(model) THEN "column"
    ELSE IF IsRelationship(model, name) THEN "relationship"
    ELSE "AttributeError"

\* value.__class__.__name__
ClassName(heap, v) ==
    IF IsObj(v) THEN heap[v[2]].cls ELSE v[1]

-----------------------------------------------------------------------------
(* Store *)

\* key.split('.'): the segments of s between the separators
RECURSIVE Split(_)
Split(s) ==
    IF \A i \in 1..Len(s) : s[i] # "."
    THEN <<s>>
    ELSE LET p == CHOOSE i \in 1..Len(s) :
                    s[i] = "." /\ \A j \in 1..(i - 1) : s[j] # "."
         IN  <<SubSeq(s, 1, p - 1)>> \o Split(SubSeq(s, p + 1, Len(s)))

\* getattr(v, segment) on a value: an attribute the object holds, the
\* default of a mapped attribute never set, or an AttributeError
GetAttr(heap, v, seg) ==
    IF ~IsObj(v) \/ Len(seg) # 1
    THEN [ok |-> FALSE, val |-> None]
    ELSE LET o == heap[v[2]]
             name == seg[1]
         IN  IF HasKey(o.attrs, name)
             THEN [ok |-> TRUE, val |-> DictGet(o.attrs, name)]
             ELSE IF name \in Columns(o.cls) \/ IsRelationship(o.cls, name)
             THEN [ok |-> TRUE, val |-> None]
             ELSE [ok |-> FALSE, val |-> None]

RECURSIVE GetAttrs(_, _, _)
GetAttrs(heap, v, parts) ==
    IF parts = <<>> THEN [err |-> NoErr, val |-> v]
    ELSE LET r == GetAttr(heap, v, Head(parts))
         IN  IF r.ok THEN GetAttrs(heap, r.val, Tail(parts))
             ELSE [err |-> Raise("AttributeError", "none", Head(parts)),
                   val |-> None]

\* a get that answers None for a key the store does not hold
StoreGetDefault(st, heap, key) ==
    LET parts == Split(key)
    IN  IF Head(parts) \notin DOMAIN st
        THEN [err |-> NoErr, val |-> None]
        ELSE GetAttrs(heap, Obj(st[Head(parts)]), Tail(parts))

\* Store.get(key)
StoreGet(st, heap, key) ==
    LET parts == Split(key)
    IN  IF Head(parts) \notin DOMAIN st
        THEN [err |-> Raise("KeyError", "none", Head(parts)), val |-> None]
        ELSE GetAttrs(heap, Obj(st[Head(parts)]), Tail(parts))

\* a put without the assertion: the last value put wins
StorePutOverwrite(st, key, id) ==
    [err |-> NoErr,
     st  |-> [k \in DOMAIN st \cup {key} |-> IF k = key THEN id ELSE st[k]]]

\* Store.put(key, value): the store afterwards, or the AssertionError
StorePut(st, key, id) ==
    IF key \in DOMAIN st
    THEN [err |-> Raise("AssertionError", "none", key), st |-> st]
    ELSE [err |-> NoErr,
          st  |-> [k \in DOMAIN st \cup {key} |->
                     IF k = key THEN id ELSE st[k]]]

-----------------------------------------------------------------------------
(* _get_rel_col_for *)

\* the first relationship attribute of src_model whose related class is
\* called target_model_name ("" when there is none).  Column attributes have
\* no mapper and are skipped; the lru_cache only memoizes this pure function.
RECURSIVE FirstRelTo(_, _)
FirstRelTo(rels, target_model_name) ==
    IF rels = <<>> THEN ""
    ELSE IF rels[1][2] = target_model_name THEN rels[1][1]
    ELSE FirstRelTo(Tail(rels), target_model_name)

GetRelColFor(src_model, target_model_name) ==
    LET name == FirstRelTo(Relationships(src_model), target_model_name)
    IN  IF name = ""
        THEN [err |-> Raise("Exception", "none",
                            <<src_model, target_model_name>>),
              name |-> ""]
        ELSE [err |-> NoErr, name |-> name]

-----------------------------------------------------------------------------
(* _create_obj *)

\* model(**kwargs): the heap with the new object appended, or the
\* TypeError of a keyword the constructor does not accept
Construct(heap, model, kwargs) ==
    IF \E i \in 1..Len(kwargs) :
          /\ kwargs[i][1] \notin Columns(model) \cup InitParams(model)
          /\ ~IsRelationship(model, kwargs[i][1])
    THEN [err |-> Raise("TypeError", "none", <<model>>), heap |-> heap]
    ELSE [err |-> NoErr,
          heap |-> Append(heap, [cls |-> model, attrs |-> kwargs])]

\* a comprehension that resolves the first key for every element
RECURSIVE BuildRefsFirstKey(_, _, _, _, _, _)
BuildRefsFirstKey(st, heap, rel_model, col_name, keys, ids) ==
    IF Len(ids) = Len(keys) THEN [err |-> NoErr, heap |-> heap, ids |-> ids]
    ELSE LET r == StoreGet(st, heap, Head(keys))
         IN  IF r.err # NoErr
             THEN [err |-> r.err, heap |-> heap, ids |-> ids]
             ELSE BuildRefsFirstKey(st,
                            Append(heap, [cls   |-> rel_model,
                                          attrs |-> << <<col_name, r.val>> >>]),
                            rel_model, col_name, keys,
                            Append(ids, Len(heap) + 1))

\* refs = [rel_model(**{col_name: store.get(v)}) for v in value]: the
\* association objects are built one by one; a key that does not resolve
\* ends the comprehension with the objects built so far left on the heap
RECURSIVE BuildRefs(_, _, _, _, _, _)
BuildRefs(st, heap, rel_model, col_name, keys, ids) ==
    IF keys = <<>> THEN [err |-> NoErr, heap |-> heap, ids |-> ids]
    ELSE LET r == StoreGet(st, heap, Head(keys))
         IN  IF r.err # NoErr
             THEN [err |-> r.err, heap |-> heap, ids |-> ids]
             ELSE BuildRefs(st,
                            Append(heap, [cls   |-> rel_model,
                                          attrs |-> << <<col_name, r.val>> >>]),
                            rel_model, col_name, Tail(keys),
                            Append(ids, Len(heap) + 1))

\* an __init__ parameter passed as given, its `ref` not resolved
InitParamFieldPassThrough(st, heap, f, name, value) ==
    [err |-> NoErr,
     f |-> [f EXCEPT !.scalars = DictSet(@, name, value)],
     heap |-> heap]

\* a field the class does not map: an __init__ parameter
InitParamField(st, heap, f, name, value) ==
    IF IsDict(value)
    THEN IF ~HasKey(value[2], "ref")
         THEN [err |-> Raise("KeyError", "none", <<"ref">>), f |-> f, heap |-> heap]
         ELSE IF ~IsStr(DictGet(value[2], "ref"))
         THEN [err |-> Raise("AttributeError", "none", <<"split">>),
               f |-> f, heap |-> heap]
         ELSE LET r == StoreGet(st, heap, DictGet(value[2], "ref")[2])
              IN  [err |-> r.err,
                   f |-> [f EXCEPT !.scalars = DictSet(@, name, r.val)],
                   heap |-> heap]
    ELSE [err |-> NoErr,
          f |-> [f EXCEPT !.scalars = DictSet(@, name, value)],
          heap |-> heap]

\* a mapped attribute that is no relationship: simple value assignment
ColumnField(st, heap, f, name, value) ==
    [err |-> NoErr,
     f |-> [f EXCEPT !.scalars = DictSet(@, name, value)],
     heap |-> heap]

\* a relationship given a list of keys
ManyField(st, heap, f, name, value, rel_name) ==
    IF value[2] = <<>>
    THEN [err |-> NoErr, f |-> f, heap |-> heap]
    ELSE LET first == StoreGet(st, heap, value[2][1])
         IN  IF first.err # NoErr
             THEN [err |-> first.err, f |-> f, heap |-> heap]
             ELSE LET col == GetRelColFor(rel_name, ClassName(heap, first.val))
                  IN  IF col.err # NoErr
                      THEN [err |-> col.err, f |-> f, heap |-> heap]
                      ELSE LET refs == BuildRefs(st, heap, rel_name, col.name,
                                                 value[2], <<>>)
                           IN  [err |-> refs.err,
                                f |-> [f EXCEPT !.many =
                                          Append(@, <<name, refs.ids>>)],
                                heap |-> refs.heap]

\* a relationship attribute
RelationshipField(st, heap, f, name, value) ==
    LET rel == RelOf(f.model, name)
    IN  IF IsDict(value)
        THEN [err |-> NoErr,
              f |-> [f EXCEPT !.nested = Append(@, <<rel[2], rel[3], value>>)],
              heap |-> heap]
        ELSE IF IsStr(value)
        THEN LET r == StoreGet(st, heap, value[2])
             IN  [err |-> r.err,
                  f |-> [f EXCEPT !.scalars = DictSet(@, name, r.val)],
                  heap |-> heap]
        ELSE IF IsList(value)
        THEN ManyField(st, heap, f, name, value, rel[2])
        ELSE [err |-> NoErr,
              f |-> [f EXCEPT !.scalars = DictSet(@, name, value)],
              heap |-> heap]

\* one iteration of `for name, value in values.items()`, before the
\* except clause: the frame and heap afterwards, or the error raised
ProcessField(st, heap, f, name, value) ==
    LET kind == ColumnKind(f.model, name)
    IN  CASE kind = "TypeError" ->
               [err |-> Raise("TypeError", "none", <<"getattr">>),
                f |-> f, heap |-> heap]
          [] kind = "AttributeError" -> InitParamField(st, heap, f, name, value)
          [] kind = "column" -> ColumnField(st, heap, f, name, value)
          [] OTHER -> RelationshipField(st, heap, f, name, value)

\* except Exception as orig_exp: raise Exception('Error processing ...')
WrapFieldError(orig, model_name, name) ==
    Raise("Exception", orig.type, <<model_name, name>>)

\* the state of a _create_obj call as it is entered
NewFrame(model_name, key, values) ==
    [model |-> model_name, key |-> key, values |-> values, i |-> 1,
     scalars |-> <<>>, nested |-> <<>>, many |-> <<>>,
     obj |-> 0, j |-> 1, m |-> 1, pc |-> "fields"]

Top == stack[Len(stack)]
SetTop(f) == [stack EXCEPT ![Len(stack)] = f]

Fail(e) == pc' = "error" /\ err' = e

\* the body of the `for name, value in values.items()` loop, for one field
Field ==
    /\ pc = "build"
    /\ Top.pc = "fields"
    /\ Top.i <= Len(Top.values)
    /\ LET name  == Top.values[Top.i][1]
           value == Top.values[Top.i][2]
           r     == ProcessField(store, objs, Top, name, value)
       IN  /\ objs' = r.heap
           /\ IF r.err # NoErr
              THEN /\ Fail(WrapFieldError(r.err, Top.model, name))
                   /\ UNCHANGED stack
              ELSE /\ stack' = SetTop([r.f EXCEPT !.i = @ + 1])
                   /\ UNCHANGED <<pc, err>>
    /\ UNCHANGED <<data, store, added, commits>>

\* obj = model(**scalars)
Instantiate ==
    /\ pc = "build"
    /\ Top.pc = "fields"
    /\ Top.i > Len(Top.values)
    /\ LET r == Construct(objs, Top.model, Top.scalars)
       IN  IF r.err # NoErr
           THEN /\ Fail(r.err)
                /\ UNCHANGED <<stack, objs>>
           ELSE /\ objs' = r.heap
                /\ stack' = SetTop([Top EXCEPT !.obj = Len(r.heap),
                                               !.pc = "nested"])
                /\ UNCHANGED <<pc, err>>
    /\ UNCHANGED <<data, store, added, commits>>

\* a nested build entered without the back-reference set
NestedNoBackReference ==
    /\ pc = "build"
    /\ Top.pc = "nested"
    /\ Top.j <= Len(Top.nested)
    /\ stack' = Append(SetTop([Top EXCEPT !.j = @ + 1]),
                       NewFrame(Top.nested[Top.j][1], None,
                                Top.nested[Top.j][3][2]))
    /\ UNCHANGED <<pc, data, store, objs, added, commits, err>>

\* one iteration of `for rel_name, back_populates, value in nested`:
\* value[back_populates] = obj, then the recursive call is entered
Nested ==
    /\ pc = "build"
    /\ Top.pc = "nested"
    /\ Top.j <= Len(Top.nested)
    /\ LET n     == Top.nested[Top.j]
           value == DictSet(n[3][2], n[2], Obj(Top.obj))
       IN  stack' = Append(SetTop([Top EXCEPT !.j = @ + 1]),
                           NewFrame(n[1], None, value))
    /\ UNCHANGED <<pc, data, store, objs, added, commits, err>>

\* a build that never saves its object
SaveInStoreSkipped ==
    /\ pc = "build"
    /\ Top.pc = "nested"
    /\ Top.j > Len(Top.nested)
    /\ stack' = SetTop([Top EXCEPT !.pc = "many"])
    /\ UNCHANGED <<pc, data, store, objs, added, commits, err>>

\* if key: store.put(key, obj)
SaveInStore ==
    /\ pc = "build"
    /\ Top.pc = "nested"
    /\ Top.j > Len(Top.nested)
    /\ IF Truthy(Top.key)
       THEN LET r == StorePut(store, Top.key[2], Top.obj)
            IN  IF r.err # NoErr
                THEN /\ Fail(r.err)
                     /\ UNCHANGED <<store, stack>>
                ELSE /\ store' = r.st
                     /\ stack' = SetTop([Top EXCEPT !.pc = "many"])
                     /\ UNCHANGED <<pc, err>>
       ELSE /\ stack' = SetTop([Top EXCEPT !.pc = "many"])
            /\ UNCHANGED <<store, pc, err>>
    /\ UNCHANGED <<data, objs, added, commits>>

\* setattr(obj, field_name, value_list) on a heap object
SetAttr(heap, id, name, value) ==
    [heap EXCEPT ![id].attrs = DictSet(@, name, value)]

\* one iteration of `for field_name, value_list in many`
AttachMany ==
    /\ pc = "build"
    /\ Top.pc = "many"
    /\ Top.m <= Len(Top.many)
    /\ objs' = SetAttr(objs, Top.obj, Top.many[Top.m][1],
                       ObjList(Top.many[Top.m][2]))
    /\ stack' = SetTop([Top EXCEPT !.m = @ + 1])
    /\ UNCHANGED <<pc, data, store, added, commits, err>>

\* a return that hands every object built, nested ones too, to session.add
ReturnAddsNested ==
    /\ pc = "build"
    /\ Top.pc = "many"
    /\ Top.m > Len(Top.many)
    /\ stack' = SubSeq(stack, 1, Len(stack) - 1)
    /\ added' = Append(added, Top.obj)
    /\ pc' = IF Len(stack) = 1 THEN "instances" ELSE pc
    /\ UNCHANGED <<data, store, objs, commits, err>>

\* return obj: a nested call returns into its parent's loop; the root call
\* returns into load, which hands the object to session.add
Return ==
    /\ pc = "build"
    /\ Top.pc = "many"
    /\ Top.m > Len(Top.many)
    /\ stack' = SubSeq(stack, 1, Len(stack) - 1)
    /\ IF Len(stack) = 1
       THEN /\ added' = Append(added, Top.obj)
            /\ pc' = "instances"
       ELSE UNCHANGED <<added, pc>>
    /\ UNCHANGED <<data, store, objs, commits, err>>

-----------------------------------------------------------------------------
(* The node trees load is run on *)

A == <<"a">>
B == <<"b">>
Empty == <<>>
Dotted == <<"a", ".", "name">>
X == Str(<<"x">>)

\* the values of `__key__`
KeyValues == {Str(A), Str(B), Str(Empty), Str(Dotted)}

\* Tag instances: every key, or none, on a named Tag; and a Tag whose
\* column is given a {ref: ...} mapping
TagInstances ==
    { << <<"__key__", k>>, <<"name", X>> >> : k \in KeyValues }
    \cup { << <<"name", X>> >>,
           << <<"name", Dict(<< <<"ref", Str(A)>> >>)>> >> }

\* an inline Comment with an inline reply
CommentWithReply ==
    Dict(<< <<"text", X>>, <<"replies", Dict(<< <<"text", X>> >>)>> >>)

\* Post instances
PostInstances ==
    { << <<"title", X>>, <<"__key__", Str(A)>> >>,
      << <<"__key__", Str(B)>>, <<"tags", List(<<B>>)>> >>,
      << <<"tags", List(<<A, B>>)>> >>,
      << <<"tags", List(<<A>>)>>, <<"title", X>> >>,
      << <<"title", X>>, <<"tags", List(<<>>)>> >>,
      << <<"__key__", Str(B)>>, <<"comments", CommentWithReply>>,
         <<"tags", List(<<A>>)>> >>,
      << <<"comments", Dict(<< <<"text", X>> >>)>>,
         <<"tags", Dict(<< <<"tag", Str(A)>> >>)>> >>,
      << <<"comments", Str(A)>> >>,
      << <<"comments", List(<<A>>)>> >>,
      << <<"comments", Str(Dotted)>> >>,
      << <<"owner", Dict(<< <<"ref", Str(A)>> >>)>> >>,
      << <<"owner", Dict(<< <<"id", <<"int", 1>>>> >>)>> >>,
      << <<"title", Dict(<< <<"ref", Str(A)>> >>)>> >>,
      << <<"tags", Dict(<< <<"tag", Dict(<< <<"name", X>> >>)>> >>)>> >>,
      << <<"comments", Dict(<< <<"__key__", Str(A)>>, <<"text", X>> >>)>> >>,
      << <<"comments", Dict(<< <<"replies", Str(B)>> >>)>> >> }

Instances(model_name) ==
    IF model_name = "Tag" THEN TagInstances
    ELSE IF model_name = "Post" THEN PostInstances
    ELSE { << <<"name", X>> >> }

\* Entry mappings, as <<key, kind of value>> items in insertion order; the
\* value is null, a scalar, or a list whose Instances load iterates over
Entries ==
    { <<>>,
      << <<"Tag", "list">> >>,
      << <<"Post", "list">> >>,
      << <<"Tag", "null">> >>,
      << <<"Post", "scalar">> >>,
      << <<"Ghost", "list">> >>,
      << <<"Tag", "list">>, <<"Post", "list">> >>,
      << <<"Post", "list">>, <<"Tag", "scalar">> >>,
      << <<"Post", "list">>, <<"Tag", "null">> >> }

-----------------------------------------------------------------------------
(* load *)

\* the number of Instances iterated over so far
RECURSIVE CountInstances(_)
CountInstances(d) ==
    IF d = <<>> THEN 0
    ELSE Len(d[1].instances) + CountInstances(Tail(d))

\* model_entry.popitem(): the last item inserted
PopItem(items) ==
    [name  |-> items[Len(items)][1],
     value |-> items[Len(items)][2],
     rest  |-> SubSeq(items, 1, Len(items) - 1)]

\* the mapper name of the Entry being iterated over
CurrentModel == PopItem(data[Len(data)].items).name

Init ==
    /\ pc = "start"
    /\ data = <<>>
    /\ store = <<>>
    /\ objs = <<>>
    /\ stack = <<>>
    /\ added = <<>>
    /\ commits = 0
    /\ err = NoErr

\* if not isinstance(data, list): raise ValueError; store = Store()
TopLevel ==
    /\ pc = "start"
    /\ \E isList \in BOOLEAN :
          IF isList
          THEN pc' = "loop" /\ UNCHANGED err
          ELSE Fail(Raise("ValueError", "none", <<"top">>))
    /\ UNCHANGED <<data, store, objs, stack, added, commits>>

\* the checks load makes on one Entry: where load goes next, and the
\* error it raises
CheckEntry(items) ==
    IF items = <<>>
    THEN [pc |-> "error", err |-> Raise("KeyError", "none", <<"popitem">>)]
    ELSE LET e == PopItem(items)
         IN  IF e.value = "null"
             THEN [pc |-> "loop", err |-> NoErr]
             ELSE IF Len(e.rest) > 0
             THEN [pc |-> "error",
                   err |-> Raise("ValueError", "none", <<"extra", e.name>>)]
             ELSE IF e.value # "list"
             THEN [pc |-> "error",
                   err |-> Raise("ValueError", "none", <<"sequence", e.name>>)]
             ELSE [pc |-> "instances", err |-> NoErr]

\* one iteration of `for model_entry in data`, up to the inner loop
NextEntry ==
    /\ pc = "loop"
    /\ Len(data) < MaxEntries
    /\ \E items \in Entries :
          /\ data' = Append(data, [items |-> items, instances |-> <<>>])
          /\ pc' = CheckEntry(items).pc
          /\ err' = CheckEntry(items).err
    /\ UNCHANGED <<store, objs, stack, added, commits>>

\* one iteration of `for fields in instances`, up to the first statement
\* of _create_obj: key = fields.pop('__key__', None), then the call, which
\* looks the mapper up in the registry
NextInstance ==
    /\ pc = "instances"
    /\ CountInstances(data) < MaxInstances
    /\ \E fields \in Instances(CurrentModel) :
          /\ data' = [data EXCEPT ![Len(data)].instances = Append(@, fields)]
          /\ stack' = <<NewFrame(CurrentModel,
                                 DictPop(fields, "__key__").value,
                                 DictPop(fields, "__key__").rest)>>
    /\ IF CurrentModel \in Models
       THEN pc' = "build" /\ UNCHANGED err
       ELSE Fail(Raise("KeyError", "none", <<CurrentModel>>))
    /\ UNCHANGED <<store, objs, added, commits>>

\* a loader that commits at the end of each Entry
EndInstancesCommitting ==
    /\ pc = "instances"
    /\ pc' = "loop"
    /\ commits' = commits + 1
    /\ UNCHANGED <<data, store, objs, stack, added, err>>

\* the Entry's list of Instances is exhausted
EndInstances ==
    /\ pc = "instances"
    /\ pc' = "loop"
    /\ UNCHANGED <<data, store, objs, stack, added, commits, err>>

\* the node tree is exhausted: session.commit(); return store
Commit ==
    /\ pc = "loop"
    /\ commits' = commits + 1
    /\ pc' = "done"
    /\ UNCHANGED <<data, store, objs, stack, added, err>>

Next ==
    \/ TopLevel
    \/ NextEntry
    \/ NextInstance
    \/ EndInstances
    \/ Commit
    \/ Field
    \/ Instantiate
    \/ Nested
    \/ SaveInStore
    \/ AttachMany
    \/ Return

Spec == Init /\ [][Next]_vars

-----------------------------------------------------------------------------
(* Notions the properties are stated in *)

\* the root-level Instances iterated over so far, in order, each with the
\* mapper name of its Entry
RECURSIVE RootInstances(_)
RootInstances(d) ==
    IF d = <<>> THEN <<>>
    ELSE [i \in 1..Len(d[1].instances) |->
            [model |-> PopItem(d[1].items).name, fields |-> d[1].instances[i]]]
         \o RootInstances(Tail(d))

\* a string without the separator
NoDot(s) == \A i \in 1..Len(s) : s[i] # "."

\* the first segment of a key
FirstSegment(s) == Head(Split(s))

\* a root-level build is under way, or was aborted by an error
Building == stack # <<>>

-----------------------------------------------------------------------------
(* C1 *)

\* C1: commit is called exactly once, when the whole node tree has been
\* iterated over and every Instance of it has been built and added; it is
\* never called while or before an Instance is built, and never when an
\* error aborts the load.
C1_CommitOnceAtEnd ==
    /\ commits = (IF pc = "done" THEN 1 ELSE 0)
    /\ pc = "done" =>
          /\ stack = <<>>
          /\ err = NoErr
          /\ Len(added) = CountInstances(data)
    /\ (err # NoErr) = (pc = "error")
    /\ pc = "error" => commits = 0

\* a load that built three Instances over two Entries and committed
C1_Witness ==
    /\ pc = "done"
    /\ commits = 1
    /\ Len(data) = 2
    /\ Len(added) = 3

-----------------------------------------------------------------------------
(* C2 *)

\* C2: every Entry with zero keys or with more than one key makes the load
\* fail, whatever the values of its keys; the error names the extra key
\* and no Instance of such an Entry is built or added.
C2_MalformedEntryFails ==
    \A e \in 1..Len(data) :
        Len(data[e].items) # 1 =>
            /\ pc = "error"
            /\ e = Len(data)
            /\ data[e].instances = <<>>
            /\ Len(data[e].items) > 1 =>
                  /\ err.type = "ValueError"
                  /\ err.arg = <<"extra", PopItem(data[e].items).name>>

-----------------------------------------------------------------------------
(* C3 *)

\* the field the innermost build is about to process is a relationship
\* given a key, or a list of keys, one of which names no registered object
AtUnregisteredReference ==
    /\ pc = "build"
    /\ Top.pc = "fields"
    /\ Top.i <= Len(Top.values)
    /\ ColumnKind(Top.model, Top.values[Top.i][1]) = "relationship"
    /\ LET value == Top.values[Top.i][2]
       IN  \/ IsStr(value) /\ FirstSegment(value[2]) \notin DOMAIN store
           \/ /\ IsList(value)
              /\ \E n \in 1..Len(value[2]) :
                    FirstSegment(value[2][n]) \notin DOMAIN store

\* the same, the unregistered key being the one resolved first
AtUnregisteredFirstReference ==
    /\ AtUnregisteredReference
    /\ LET value == Top.values[Top.i][2]
       IN  \/ IsStr(value)
           \/ IsList(value) /\ FirstSegment(value[2][1]) \notin DOMAIN store

-----------------------------------------------------------------------------
(* The Store on its own: a client that calls put and get in any order *)

StoreKeys == {A, B, Empty, Dotted}

\* the objects the client holds: named Tags
ClientObjects ==
    [id \in 1..MaxStoreValues |->
        [cls |-> "Tag", attrs |-> << <<"name", X>> >>]]

\* data holds the last call made, err what it raised
StoreInit ==
    /\ pc = "store"
    /\ data = <<>>
    /\ store = <<>>
    /\ objs = ClientObjects
    /\ stack = <<>>
    /\ added = <<>>
    /\ commits = 0
    /\ err = NoErr

\* store.put(key, value); an AssertionError leaves the client running
PutCall ==
    /\ pc = "store"
    /\ \E key \in StoreKeys, id \in 1..MaxStoreValues :
          /\ data' = <<"put", key, id>>
          /\ store' = StorePut(store, key, id).st
          /\ err' = StorePut(store, key, id).err
    /\ UNCHANGED <<pc, objs, stack, added, commits>>

\* store.get(key)
GetCall ==
    /\ pc = "store"
    /\ \E key \in StoreKeys :
          /\ data' = <<"get", key, 0>>
          /\ err' = StoreGet(store, objs, key).err
    /\ UNCHANGED <<pc, store, objs, stack, added, commits>>

StoreNext ==
    \/ PutCall
    \/ GetCall

SpecStore == StoreInit /\ [][StoreNext]_vars

-----------------------------------------------------------------------------
(* C4 *)

-----------------------------------------------------------------------------
(* C5 *)

\* the key the j-th root-level Instance declares, when it declares one
DeclaresKey(j) == HasKey(RootInstances(data)[j].fields, "__key__")
DeclaredKey(j) == DictGet(RootInstances(data)[j].fields, "__key__")[2]

\* C5 as stated: after a successful load, get of the key any root-level
\* Instance declared, whatever the key, returns the object built for it.
C5_EveryKeyRetrievable ==
    pc = "done" =>
        \A j \in 1..Len(RootInstances(data)) :
            DeclaresKey(j) =>
                StoreGet(store, objs, DeclaredKey(j)) =
                    [err |-> NoErr, val |-> Obj(added[j])]

\* C5 amended: after a successful load, get of the key a root-level
\* Instance declared returns the object built for that Instance, when the
\* key is not empty and holds no separator.
C5_PlainKeyRetrievable ==
    pc = "done" =>
        \A j \in 1..Len(RootInstances(data)) :
            (DeclaresKey(j) /\ DeclaredKey(j) # <<>> /\ NoDot(DeclaredKey(j))) =>
                StoreGet(store, objs, DeclaredKey(j)) =
                    [err |-> NoErr, val |-> Obj(added[j])]

\* a load that registered two objects under plain keys
C5_Witness ==
    /\ pc = "done"
    /\ \E i, j \in 1..Len(RootInstances(data)) :
          /\ DeclaresKey(i) /\ DeclaredKey(i) = A
          /\ DeclaresKey(j) /\ DeclaredKey(j) = B
          /\ StoreGet(store, objs, A).val = Obj(added[i])
          /\ StoreGet(store, objs, B).val = Obj(added[j])

-----------------------------------------------------------------------------
(* C6 *)

\* the nested item whose build is the d-th call on the stack (d > 1)
NestedItem(d) == stack[d - 1].nested[stack[d - 1].j - 1]

\* C6: an inline child, at any depth, is built after its parent object was
\* instantiated, is built without key, carries the parent object in its
\* back-reference field, and registers nothing: every key of the Store is
\* bound to the object of a root-level Instance.
C6_InlineChildren ==
    /\ \A d \in 2..Len(stack) :
          /\ stack[d - 1].obj # 0
          /\ stack[d - 1].pc = "nested"
          /\ stack[d].key = None
          /\ stack[d].model = NestedItem(d)[1]
          /\ HasKey(stack[d].values, NestedItem(d)[2])
          /\ DictGet(stack[d].values, NestedItem(d)[2]) = Obj(stack[d - 1].obj)
          /\ stack[d].obj # 0 =>
                /\ stack[d].obj > stack[d - 1].obj
                /\ HasKey(objs[stack[d].obj].attrs, NestedItem(d)[2])
                /\ DictGet(objs[stack[d].obj].attrs, NestedItem(d)[2])
                      = Obj(stack[d - 1].obj)
    /\ \A k \in DOMAIN store :
          \/ \E j \in 1..Len(added) : store[k] = added[j]
          \/ Building /\ store[k] = stack[1].obj
    /\ pc = "done" =>
          DOMAIN store =
              { DeclaredKey(j) : j \in { i \in 1..Len(RootInstances(data)) :
                                           DeclaresKey(i) /\ DeclaredKey(i) # <<>> } }

\* a child of a child has been instantiated under a keyed root Instance
C6_Witness ==
    /\ pc = "build"
    /\ Len(stack) = 3
    /\ stack[3].obj # 0
    /\ Truthy(stack[1].key)

-----------------------------------------------------------------------------
(* C7 *)

\* the object an association object links to: the value of its one attribute
LinkOf(heap, id) == heap[id].attrs[1][2]

\* the fields of a mapping that are relationships given a list of keys
ListFields(model, values) ==
    { q \in 1..Len(values) :
        /\ ColumnKind(model, values[q][1]) = "relationship"
        /\ IsList(values[q][2]) }

\* the object id, built from values, holds for each list of n keys a
\* collection of n association objects, the i-th linking to what the i-th
\* key resolves to; a field given the empty list is not set
ListsAttached(model, values, id) ==
    \A q \in ListFields(model, values) :
        LET name == values[q][1]
            keys == values[q][2][2]
            attrs == objs[id].attrs
        IN  IF keys = <<>>
            THEN ~HasKey(attrs, name)
            ELSE /\ HasKey(attrs, name)
                 /\ DictGet(attrs, name)[1] = "objlist"
                 /\ Len(DictGet(attrs, name)[2]) = Len(keys)
                 /\ \A n \in 1..Len(keys) :
                       LET a == DictGet(attrs, name)[2][n]
                       IN  /\ objs[a].cls = RelOf(model, name)[2]
                           /\ Len(objs[a].attrs) = 1
                           /\ LinkOf(objs, a) = StoreGet(store, objs, keys[n]).val
                           /\ StoreGet(store, objs, keys[n]).err = NoErr

-----------------------------------------------------------------------------
(* C8 *)

\* the build on top of the stack has run to its return statement
Returning(f) ==
    /\ f.pc = "many"
    /\ f.m > Len(f.many)
    /\ f.j > Len(f.nested)
    /\ f.obj # 0
    /\ Truthy(f.key) => (f.key[2] \in DOMAIN store /\ store[f.key[2]] = f.obj)
    /\ \A n \in 1..Len(f.many) : HasKey(objs[f.obj].attrs, f.many[n][1])

\* C8: add is called once for each root-level Instance, in order, with the
\* object its build returned and only when that build has returned; never
\* for an inline child, an association object or an Entry whose value is
\* null.
C8_AddOncePerRootInstance ==
    /\ [][ added' # added =>
              /\ Len(stack) = 1
              /\ stack' = <<>>
              /\ Returning(stack[1])
              /\ added' = Append(added, stack[1].obj)
              /\ stack[1].model = RootInstances(data)[Len(added')].model
              /\ objs' = objs
         ]_vars
    /\ [](/\ Len(added) = CountInstances(data) - (IF Building THEN 1 ELSE 0)
          /\ \A i, j \in 1..Len(added) : i < j => added[i] < added[j]
          /\ \A j \in 1..Len(added) :
                objs[added[j]].cls = RootInstances(data)[j].model
          /\ \A e \in 1..Len(data) :
                (data[e].items = <<>> \/ PopItem(data[e].items).value # "list")
                    => data[e].instances = <<>>)

\* two root objects were added, the first of them the parent of children
C8_Witness ==
    /\ Len(added) = 2
    /\ added[2] > added[1] + 1
    /\ \E e \in 1..Len(data) :
          data[e].items # <<>> /\ PopItem(data[e].items).value = "null"

-----------------------------------------------------------------------------
(* C9 *)

\* the mapping declares a key (not empty) and gives a relationship a list
\* of keys that holds that very key
NamesItself(model, fields) ==
    /\ HasKey(fields, "__key__")
    /\ DictGet(fields, "__key__")[2] # <<>>
    /\ \E q \in ListFields(model, fields) :
          \E n \in 1..Len(fields[q][2][2]) :
              fields[q][2][2][n] = DictGet(fields, "__key__")[2]

\* the root-level Instance being built, as the node tree gives it
CurrentInstance == RootInstances(data)[Len(RootInstances(data))]

\* C9 as stated: the build of an Instance with key k whose own list of keys
\* holds k resolves k and does not fail.
C9_SelfReferenceResolves ==
    (Building /\ NamesItself(CurrentInstance.model, CurrentInstance.fields))
        => pc # "error"

\* C9 amended: a keyed parent is registered in the Store before its
\* many-to-many collections are attached to it, but the keys of a
\* collection are resolved while the fields are processed, before the
\* parent is instantiated: no association object of a build links to the
\* object of that build, and the build of an Instance with a plain key k
\* whose own list of keys holds k never returns.
C9_RegisteredBeforeAttached ==
    /\ \A d \in 1..Len(stack) :
          LET f == stack[d]
          IN  /\ (pc = "build" /\ f.pc = "many" /\ Truthy(f.key)) =>
                    (f.key[2] \in DOMAIN store /\ store[f.key[2]] = f.obj)
              /\ (f.pc # "many" /\ f.obj # 0) =>
                    \A n \in 1..Len(f.many) :
                        ~HasKey(objs[f.obj].attrs, f.many[n][1])
              /\ \A n \in 1..Len(f.many) :
                    \A a \in 1..Len(f.many[n][2]) :
                        /\ f.obj = 0 \/ f.many[n][2][a] < f.obj
                        /\ LinkOf(objs, f.many[n][2][a]) # Obj(f.obj)
    /\ \A j \in 1..Len(added) :
          ~( /\ NamesItself(RootInstances(data)[j].model,
                            RootInstances(data)[j].fields)
             /\ NoDot(DeclaredKey(j)) )

\* an Instance that names its own key in its list of keys failed on it
C9_Witness ==
    /\ pc = "error"
    /\ Building
    /\ NamesItself(CurrentInstance.model, CurrentInstance.fields)
    /\ err.cause = "KeyError"
    /\ Top.i \in ListFields(Top.model, Top.values)

-----------------------------------------------------------------------------
(* C10 *)

\* the fields a build has processed whose value is a mapping holding `ref`
RefFields(f) ==
    { q \in 1..(f.i - 1) :
        /\ IsDict(f.values[q][2])
        /\ HasKey(f.values[q][2][2], "ref")
        /\ IsStr(DictGet(f.values[q][2][2], "ref")) }

\* what get returns for the `ref` of field q
Referenced(f, q) ==
    StoreGet(store, objs, DictGet(f.values[q][2][2], "ref")[2])

\* the constructor argument the build holds for field q, and the attribute
\* the object got from it
ArgumentIs(f, q, v) ==
    /\ HasKey(f.scalars, f.values[q][1])
    /\ DictGet(f.scalars, f.values[q][1]) = v
    /\ f.obj # 0 =>
          /\ HasKey(objs[f.obj].attrs, f.values[q][1])
          /\ DictGet(objs[f.obj].attrs, f.values[q][1]) = v

\* C10 as stated: a column of the model given a mapping holding `ref` is
\* passed the object get returns for it.
C10_ColumnRefResolved ==
    \A d \in 1..Len(stack) :
        \A q \in RefFields(stack[d]) :
            (/\ ColumnKind(stack[d].model, stack[d].values[q][1]) = "column"
             /\ Referenced(stack[d], q).err = NoErr) =>
                ArgumentIs(stack[d], q, Referenced(stack[d], q).val)

\* C10 amended: a field the model does not map (an __init__ parameter that
\* is not a column) given a mapping holding `ref` is passed the object get
\* returns for it; a column of the model given such a mapping is passed the
\* mapping itself.
C10_InitParamRefResolved ==
    \A d \in 1..Len(stack) :
        \A q \in RefFields(stack[d]) :
            LET kind == ColumnKind(stack[d].model, stack[d].values[q][1])
            IN  /\ kind = "AttributeError" =>
                      /\ Referenced(stack[d], q).err = NoErr
                      /\ ArgumentIs(stack[d], q, Referenced(stack[d], q).val)
                /\ kind = "column" =>
                      ArgumentIs(stack[d], q, stack[d].values[q][2])

\* a Post was instantiated with the stored object its `owner` refers to
C10_Witness ==
    /\ Building
    /\ Top.obj # 0
    /\ \E q \in RefFields(Top) :
          /\ Top.values[q][1] = "owner"
          /\ DictGet(objs[Top.obj].attrs, "owner") = Obj(store[A])

====
